---------------------------- MODULE Spec2Model ----------------------------
(***************************************************************************)
(* Model of pubmed_paper_fetcher: the ESearch / EFetch pipeline of         *)
(* fetcher.py (esearch, efetch, parse_articles, is_company_affil,          *)
(* first_email, fetch_papers, save_or_print) and the command line of       *)
(* cli.py (main).                                                          *)
(*                                                                         *)
(* Python strings are TLA+ strings; a character is a string of length 1.   *)
(* Python's None is the empty tuple <<>> and a present value v is <<v>>.   *)
(***************************************************************************)
EXTENDS Integers, Sequences, FiniteSets, TLC

VARIABLES
    pc,         \* position of the running call
    pmids,      \* fetch_papers: the identifier list esearch returned
    start,      \* efetch: the loop variable of range(0, len(pmids), BATCH_SIZE)
    requests,   \* history: the id lists of the EFetch requests issued, in order
    responses,  \* history: the bodies of the EFetch responses parsed, in order
    searches,   \* history: the number of ESearch requests issued
    xml,        \* the XML chunk efetch yielded last (<<>> when none is held)
    rows,       \* fetch_papers / parse_articles: the accumulated rows
    df,         \* the DataFrame fetch_papers returned (<<>> when none)
    exit_code,  \* cli.main: the process exit status (<<>> while running)
    output,     \* cli.main: what save_or_print emitted (<<>> when nothing)
    text,       \* the string argument of a helper applied on its own
    result      \* the value that helper returned (<<>> before the call)

vars == <<pc, pmids, start, requests, responses, searches, xml, rows, df,
          exit_code, output, text, result>>

None == <<>>
Some(v) == <<v>>

Min(a, b) == IF a <= b THEN a ELSE b

\* Python's `x or y` on an optional string: y when x is None or empty.
Or(x, y) == IF x = None \/ x[1] = "" THEN y ELSE x[1]

-----------------------------------------------------------------------------
(* Characters and strings *)

Char(s, i) == SubSeq(s, i, i)

CharsOf(s) == { Char(s, i) : i \in 1..Len(s) }

UpperLetters == "ABCDEFGHIJKLMNOPQRSTUVWXYZ"
LowerLetters == "abcdefghijklmnopqrstuvwxyz"
Digits == "0123456789"

\* textwrap._whitespace / str.isspace, restricted to the characters used here
Whitespace == {" ", "\t", "\n"}

\* The lower-case letter of each upper-case letter
LowerOf ==
    [ c \in CharsOf(UpperLetters) |->
        Char(LowerLetters, CHOOSE i \in 1..Len(UpperLetters) : Char(UpperLetters, i) = c) ]

LowerChar(c) == IF c \in DOMAIN LowerOf THEN LowerOf[c] ELSE c

\* str.lower()
RECURSIVE lower(_)
lower(s) ==
    IF Len(s) = 0 THEN ""
    ELSE IF Len(s) = 1 THEN LowerChar(s)
    ELSE LET h == Len(s) \div 2
         IN lower(SubSeq(s, 1, h)) \o lower(SubSeq(s, h + 1, Len(s)))

\* str.strip(): drop leading and trailing whitespace
strip(s) ==
    LET Blank(i) == Char(s, i) \in Whitespace
    IN IF \A i \in 1..Len(s) : Blank(i) THEN ""
       ELSE LET lo == CHOOSE i \in 1..Len(s) : ~Blank(i) /\ \A j \in 1..(i - 1) : Blank(j)
                hi == CHOOSE i \in 1..Len(s) : ~Blank(i) /\ \A j \in (i + 1)..Len(s) : Blank(j)
            IN SubSeq(s, lo, hi)

\* Code-point order of the characters (ASCII order, as sorted() compares str)
CodePoints ==
    "\t\n !%+,-./" \o Digits \o ":;@" \o UpperLetters \o "[]_" \o LowerLetters

Ord(c) == CHOOSE i \in 1..Len(CodePoints) : Char(CodePoints, i) = c

\* a < b for Python strings
RECURSIVE StrLess(_, _)
StrLess(a, b) ==
    IF Len(b) = 0 THEN FALSE
    ELSE IF Len(a) = 0 THEN TRUE
    ELSE IF Char(a, 1) = Char(b, 1)
         THEN StrLess(SubSeq(a, 2, Len(a)), SubSeq(b, 2, Len(b)))
         ELSE Ord(Char(a, 1)) < Ord(Char(b, 1))

-----------------------------------------------------------------------------
(* Regular expressions of fetcher.py *)

\* a literal keyword: one required character per position
Lit(s) == [ i \in 1..Len(s) |-> [kind |-> "lit", ch |-> Char(s, i), opt |-> FALSE] ]
\* \.?
OptDot == << [kind |-> "lit", ch |-> ".", opt |-> TRUE] >>
\* \s?
OptSpace == << [kind |-> "space", ch |-> " ", opt |-> TRUE] >>

\* The alternatives of COMPANY_KEYWORDS (re.X drops the blanks of the pattern itself)
COMPANY_KEYWORDS ==
    << Lit("pharm"), Lit("biotech"), Lit("inc") \o OptDot, Lit("ltd") \o OptDot,
       Lit("llc"), Lit("gmbh"), Lit("corp"), Lit("corporation"),
       Lit("s") \o OptDot \o Lit("a") \o OptDot, Lit("plc"),
       Lit("k") \o OptDot \o Lit("k") \o OptDot,
       Lit("co") \o OptDot \o OptSpace \o Lit("ltd") >>

\* The alternatives of ACADEMIC_KEYWORDS
ACADEMIC_KEYWORDS ==
    << Lit("univ"), Lit("universit"), Lit("college"), Lit("academy"),
       Lit("school"), Lit("hospital"), Lit("centre"), Lit("center"),
       Lit("institut"), Lit("facult"), Lit("dept"), Lit("department") >>

\* One pattern element against one character, under re.I
ElemMatches(e, c) ==
    IF e.kind = "space" THEN c \in Whitespace
    ELSE LowerChar(c) = LowerChar(e.ch)

\* Does alternative alt, from its element k on, match s at position i?
RECURSIVE MatchHere(_, _, _, _)
MatchHere(alt, k, s, i) ==
    IF k > Len(alt) THEN TRUE
    ELSE \/ /\ i <= Len(s)
            /\ ElemMatches(alt[k], Char(s, i))
            /\ MatchHere(alt, k + 1, s, i + 1)
         \/ /\ alt[k].opt
            /\ MatchHere(alt, k + 1, s, i)

\* pattern.search(s) is not None
Search(pattern, s) ==
    \E a \in 1..Len(pattern) : \E i \in 1..Len(s) : MatchHere(pattern[a], 1, s, i)

\* A classifier that forgets the academic override.
is_company_affil_no_override(affil) ==
    LET affil_lc == lower(affil)
    IN Search(COMPANY_KEYWORDS, affil_lc)

\* is_company_affil(affil)
is_company_affil(affil) ==
    LET affil_lc == lower(affil)
    IN Search(COMPANY_KEYWORDS, affil_lc) /\ ~Search(ACADEMIC_KEYWORDS, affil_lc)

\* The character classes of EMAIL_RE
LocalChars == CharsOf(UpperLetters \o LowerLetters \o Digits \o "._%+-")
DomainChars == CharsOf(UpperLetters \o LowerLetters \o Digits \o ".-")
Letters == CharsOf(UpperLetters \o LowerLetters)

\* The last position of the longest run of characters of cls that starts at
\* position i of s (i - 1 when s[i] is not in cls): a greedy cls*
RunEnd(s, i, cls) ==
    IF \A j \in i..Len(s) : Char(s, j) \in cls THEN Len(s)
    ELSE (CHOOSE j \in i..Len(s) :
            Char(s, j) \notin cls /\ \A k \in i..(j - 1) : Char(s, k) \in cls) - 1

\* EMAIL_RE.match at position i: the last position of the match, 0 if none.
\* [local]+ is greedy and must stop at "@"; [domain]+ is greedy and gives back
\* characters until "." and two letters follow; [A-Za-z]{2,} is greedy.
EmailEndAt(s, i) ==
    LET at == RunEnd(s, i, LocalChars) + 1
    IN IF at = i \/ at > Len(s) \/ Char(s, at) # "@" THEN 0
       ELSE LET dom == RunEnd(s, at + 1, DomainChars)
                dots == { k \in (at + 2)..(dom - 2) :
                            /\ Char(s, k) = "."
                            /\ Char(s, k + 1) \in Letters
                            /\ Char(s, k + 2) \in Letters }
            IN IF dots = {} THEN 0
               ELSE LET dot == CHOOSE k \in dots : \A j \in dots : j <= k
                    IN RunEnd(s, dot + 1, Letters)

\* first_email(text): the leftmost match of EMAIL_RE, or None
first_email(t) ==
    LET starts == { i \in 1..Len(t) : EmailEndAt(t, i) # 0 }
    IN IF starts = {} THEN None
       ELSE LET i == CHOOSE i \in starts : \A j \in starts : i <= j
            IN Some(SubSeq(t, i, EmailEndAt(t, i)))

-----------------------------------------------------------------------------
(* parse_articles *)

\* An element tree holds, per PubmedArticle: PMID, ArticleTitle (optional
\* texts), ArticleDate and PubDate (optional nodes with optional Year, Month,
\* Day texts) and the Author elements in document order, each with optional
\* LastName, ForeName, Initials and its AffiliationInfo elements in order.

\* A date that falls back to PubDate when ArticleDate has no usable field.
PublicationDate_fallback(art) ==
    LET Parts(node) ==
            SelectSeq(<<Or(node[1].Year, ""), Or(node[1].Month, ""), Or(node[1].Day, "")>>,
                      LAMBDA p : p # "")
        date_node == IF art.ArticleDate = None \/ Parts(art.ArticleDate) = <<>>
                     THEN art.PubDate ELSE art.ArticleDate
    IN IF date_node = None \/ Parts(date_node) = <<>> THEN "N/A"
       ELSE LET parts == Parts(date_node)
            IN IF Len(parts) = 1 THEN parts[1]
               ELSE IF Len(parts) = 2 THEN parts[1] \o "-" \o parts[2]
               ELSE parts[1] \o "-" \o parts[2] \o "-" \o parts[3]

\* lines 120-129: the publication date of an article
PublicationDate(art) ==
    LET date_node == IF art.ArticleDate = None THEN art.PubDate ELSE art.ArticleDate
    IN IF date_node = None THEN "N/A"
       ELSE LET y == Or(date_node[1].Year, "")
                m == Or(date_node[1].Month, "")
                d == Or(date_node[1].Day, "")
                parts == SelectSeq(<<y, m, d>>, LAMBDA p : p # "")
            IN IF parts = <<>> THEN "N/A"
               ELSE IF Len(parts) = 1 THEN parts[1]
               ELSE IF Len(parts) = 2 THEN parts[1] \o "-" \o parts[2]
               ELSE parts[1] \o "-" \o parts[2] \o "-" \o parts[3]

\* lines 135-137: the display name of an author
AuthorName(author) ==
    LET last == Or(author.LastName, "")
        first == IF Or(author.ForeName, "") # "" THEN author.ForeName[1]
                 ELSE Or(author.Initials, "")
    IN strip(first \o " " \o last)

\* The state of the author loop of one article
ScanStart == [non_acad_authors |-> <<>>, company_affils |-> <<>>, corr_email |-> None]

\* A scan that keeps the last address found instead of the first.
ScanAffil_last(acc, name, affil_info) ==
    LET affil == strip(Or(affil_info, ""))
        email == IF first_email(affil) # None THEN first_email(affil) ELSE acc.corr_email
        company == affil # "" /\ is_company_affil(affil)
    IN [non_acad_authors |-> IF company THEN Append(acc.non_acad_authors, name)
                             ELSE acc.non_acad_authors,
        company_affils |-> IF company THEN Append(acc.company_affils, affil)
                           ELSE acc.company_affils,
        corr_email |-> email]

\* lines 140-149: one AffiliationInfo of an author
ScanAffil(acc, name, affil_info) ==
    LET affil == strip(Or(affil_info, ""))
        email == IF acc.corr_email = None \/ acc.corr_email[1] = ""
                 THEN first_email(affil) ELSE acc.corr_email
        company == affil # "" /\ is_company_affil(affil)
    IN [non_acad_authors |-> IF company THEN Append(acc.non_acad_authors, name)
                             ELSE acc.non_acad_authors,
        company_affils |-> IF company THEN Append(acc.company_affils, affil)
                           ELSE acc.company_affils,
        corr_email |-> email]

\* lines 139-149: the AffiliationInfo loop of one author
RECURSIVE ScanAffils(_, _, _, _)
ScanAffils(acc, name, infos, j) ==
    IF j > Len(infos) THEN acc
    ELSE ScanAffils(ScanAffil(acc, name, infos[j]), name, infos, j + 1)

\* lines 134-149: the Author loop of one article
RECURSIVE ScanAuthors(_, _, _)
ScanAuthors(acc, authors, i) ==
    IF i > Len(authors) THEN acc
    ELSE ScanAuthors(ScanAffils(acc, AuthorName(authors[i]), authors[i].Affiliations, 1),
                     authors, i + 1)

\* set(xs)
ToSet(xs) == { xs[i] : i \in 1..Len(xs) }

\* sorted(S) for a set of strings
RECURSIVE sorted(_)

\* The entries in descending order.
sorted_desc(S) ==
    IF S = {} THEN <<>>
    ELSE LET least == CHOOSE x \in S : \A y \in S : x = y \/ StrLess(x, y)
         IN sorted(S \ {least}) \o <<least>>

sorted(S) ==
    IF S = {} THEN <<>>
    ELSE LET least == CHOOSE x \in S : \A y \in S : x = y \/ StrLess(x, y)
         IN <<least>> \o sorted(S \ {least})

\* sep.join(xs)
RECURSIVE join(_, _)
join(sep, xs) ==
    IF xs = <<>> THEN ""
    ELSE IF Len(xs) = 1 THEN xs[1]
    ELSE xs[1] \o sep \o join(sep, Tail(xs))


\* str.split(): the maximal runs of non-whitespace characters, from position p on
RECURSIVE split(_, _)
split(t, p) ==
    LET Blank(i) == Char(t, i) \in Whitespace
    IN IF \A i \in p..Len(t) : Blank(i) THEN <<>>
       ELSE LET b == CHOOSE i \in p..Len(t) : ~Blank(i) /\ \A j \in p..(i - 1) : Blank(j)
                e == IF \A j \in b..Len(t) : ~Blank(j) THEN Len(t)
                     ELSE (CHOOSE j \in b..Len(t) :
                             Blank(j) /\ \A k \in b..(j - 1) : ~Blank(k)) - 1
            IN <<SubSeq(t, b, e)>> \o split(t, e + 1)

\* TextWrapper._split on text whose whitespace is collapsed: the words and
\* the single blanks between them (no hyphens or dashes in the text)
RECURSIVE Chunks(_)
Chunks(words) ==
    IF words = <<>> THEN <<>>
    ELSE IF Len(words) = 1 THEN words
    ELSE <<words[1], " ">> \o Chunks(Tail(words))

RECURSIVE SumLen(_)
SumLen(chunks) == IF chunks = <<>> THEN 0 ELSE Len(chunks[1]) + SumLen(Tail(chunks))

Front(xs) == SubSeq(xs, 1, Len(xs) - 1)

\* TextWrapper.placeholder
placeholder == " [...]"

\* _wrap_chunks: the number of leading chunks that fit on a line of `width`
RECURSIVE Fitting(_, _, _, _)
Fitting(chunks, n, cur_len, width) ==
    IF n < Len(chunks) /\ cur_len + Len(chunks[n + 1]) <= width
    THEN Fitting(chunks, n + 1, cur_len + Len(chunks[n + 1]), width)
    ELSE n

\* _wrap_chunks with max_lines = 1, the line being full: chunks are dropped
\* from its end until the placeholder fits after a word
RECURSIVE Truncate(_, _)
Truncate(cur_line, width) ==
    IF cur_line = <<>> THEN strip(placeholder)
    ELSE IF /\ strip(cur_line[Len(cur_line)]) # ""
            /\ SumLen(cur_line) + Len(placeholder) <= width
         THEN join("", cur_line) \o placeholder
         ELSE Truncate(Front(cur_line), width)

\* A plain cut at the width, title[:width].
shorten_cut(t, width) == SubSeq(t, 1, Min(width, Len(t)))

\* textwrap.shorten(text, width)
shorten(t, width) ==
    LET chunks == Chunks(split(strip(t), 1))
        n == Fitting(chunks, 0, 0, width)
        fit == SubSeq(chunks, 1, n)
    IN IF chunks = <<>> THEN ""
       ELSE IF n = Len(chunks) THEN join("", fit)
       ELSE LET next == chunks[n + 1]
                \* _handle_long_word: break_long_words puts what fits on the line
                broken == IF Len(next) > width
                          THEN Append(fit, SubSeq(next, 1, width - SumLen(fit)))
                          ELSE fit
                \* drop_whitespace
                cur_line == IF broken # <<>> /\ strip(broken[Len(broken)]) = ""
                            THEN Front(broken) ELSE broken
            IN Truncate(cur_line, width)

\* width=200 of line 155
TITLE_WIDTH == 200

\* A parser that emits a row for every article.
HasNonAcademic_always(scan) == TRUE

\* `if non_acad_authors:` (line 151)
HasNonAcademic(scan) == scan.non_acad_authors # <<>>

\* lines 116-161: the row of one article, or None when it has no company author
ArticleRow(art) ==
    LET pmid == art.PMID
        title == Or(art.ArticleTitle, "N/A")
        pub_date == PublicationDate(art)
        scan == ScanAuthors(ScanStart, art.Authors, 1)
    IN IF HasNonAcademic(scan)
       THEN Some([PubmedID |-> pmid,
                  Title |-> shorten(title, TITLE_WIDTH),
                  PublicationDate |-> pub_date,
                  NonAcademicAuthors |-> join("; ", sorted(ToSet(scan.non_acad_authors))),
                  CompanyAffiliations |-> join("; ", sorted(ToSet(scan.company_affils))),
                  CorrespondingAuthorEmail |-> Or(scan.corr_email, "N/A")])
       ELSE None

\* lines 112-162: the article loop
RECURSIVE ArticleLoop(_, _, _)
ArticleLoop(arts, i, acc) ==
    IF i > Len(arts) THEN acc
    ELSE ArticleLoop(arts, i + 1, acc \o ArticleRow(arts[i]))

\* parse_articles(xml_chunk), for a chunk lxml can parse
parse_articles(xml_chunk) == ArticleLoop(xml_chunk.articles, 1, <<>>)

-----------------------------------------------------------------------------
(* Bounds and input sets *)

MaxFrags == 3

\* Pieces affiliation strings are put together from
AffilFragments ==
    {"Inc.", "univ", "s", "a", ".", " ", "Co", "LTD", "Dept", "k", "x"}

RECURSIVE Concats(_, _)
Concats(frags, n) ==
    IF n = 0 THEN {""}
    ELSE LET shorter == Concats(frags, n - 1)
         IN shorter \cup { s \o f : s \in shorter, f \in frags }

AffilStrings == Concats(AffilFragments, MaxFrags)

MaxAuthors == 2     \* authors of an article
MaxAffils == 2      \* AffiliationInfo elements of an author
MaxScan == 3        \* AffiliationInfo elements of an article
MaxRecs == 2        \* articles in an EFetch response
MaxBatches == 2     \* full batches in an ESearch result
MaxTitleParts == 4  \* pieces of a title

\* BATCH_SIZE = 200
BATCH_SIZE == 200

\* Sequences over S of length at most n
RECURSIVE SeqsUpTo(_, _)
SeqsUpTo(S, n) ==
    IF n = 0 THEN {<<>>}
    ELSE LET shorter == SeqsUpTo(S, n - 1)
         IN shorter \cup { Append(q, x) : q \in shorter, x \in S }

\* Sequences over S of length exactly n
SeqsOfLen(S, n) == { q \in SeqsUpTo(S, n) : Len(q) = n }

\* Affiliation texts: a company, the same company with blanks around it, an
\* academic department with an address, a company with an address
AffilSamples ==
    { Some("Acme Inc."), Some(" Acme Inc.\n"),
      Some(" Dept. Biology, jane@uni.edu "), Some("Zed GmbH, zed@zp.com") }

\* The names of the authors by their place in the author list: a fore name
\* and a last name, initials alone, a fore name that needs trimming
AuthorNames ==
    << [LastName |-> Some("Doe"), ForeName |-> Some("Jane"), Initials |-> Some("J")],
       [LastName |-> None, ForeName |-> None, Initials |-> Some("A")],
       [LastName |-> Some("Cee"), ForeName |-> Some(" Bob"), Initials |-> None] >>

\* The authors at place p with exactly k affiliations
AuthorsWith(p, k) ==
    LET n == AuthorNames[((p - 1) % Len(AuthorNames)) + 1]
    IN { [LastName |-> n.LastName, ForeName |-> n.ForeName, Initials |-> n.Initials,
          Affiliations |-> a] : a \in SeqsOfLen(AffilSamples, k) }

\* The author lists, from place p on, of at most n authors and at most b
\* affiliations in all
RECURSIVE AuthorLists(_, _, _)
AuthorLists(p, n, b) ==
    IF n = 0 THEN {<<>>}
    ELSE {<<>>} \cup
         UNION { { <<a>> \o rest : a \in AuthorsWith(p, k),
                                   rest \in AuthorLists(p + 1, n - 1, b - k) }
                 : k \in 0..Min(MaxAffils, b) }

DateOf(y, m, d) == Some([Year |-> y, Month |-> m, Day |-> d])

ArticleDates ==
    {None} \cup { DateOf(y, m, d) : y \in {None, Some(""), Some("2024")},
                                    m \in {None, Some("05")}, d \in {None, Some("01")} }

PubDates ==
    {None} \cup { DateOf(y, m, d) : y \in {None, Some("2023")},
                                    m \in {None, Some("Dec")}, d \in {None, Some("15")} }

CompanyAuthor ==
    [LastName |-> Some("Doe"), ForeName |-> Some("Jane"), Initials |-> None,
     Affiliations |-> <<Some("Acme Biotech Inc., Boston")>>]

AcademicAuthor ==
    [LastName |-> Some("Roe"), ForeName |-> None, Initials |-> Some("R"),
     Affiliations |-> <<Some("Dept. of Biology, Example University, roe@ex.edu")>>]

Article(pmid, title, adate, pdate, authors) ==
    [PMID |-> pmid, ArticleTitle |-> title, ArticleDate |-> adate, PubDate |-> pdate,
     Authors |-> authors]

\* Articles that differ in their authors
AuthorArticles ==
    { Article(Some("123"), Some("Sample"), DateOf(Some("2024"), Some("05"), Some("01")), None, al)
      : al \in AuthorLists(1, MaxAuthors, MaxScan) }

\* Articles that differ in their dates
DateArticles ==
    { Article(Some("123"), Some("Sample"), ad, pd, <<CompanyAuthor>>)
      : ad \in ArticleDates, pd \in PubDates }

\* Three articles: a company paper without an address, an academic paper
\* with one, a company paper of two authors
SampleArticles ==
    << Article(Some("3"), Some("Three"), None, None, <<AcademicAuthor, CompanyAuthor>>),
       Article(Some("1"), Some("One"), None, DateOf(Some("2023"), None, None), <<CompanyAuthor>>),
       Article(Some("2"), None, None, None, <<AcademicAuthor>>) >>

Chunk(arts) == [ok |-> TRUE, articles |-> arts]

\* A response body lxml cannot parse
Malformed == [ok |-> FALSE, articles |-> <<>>]

\* The chunks parse_articles is applied to on its own
ParseChunks ==
    { Chunk(<<a>> \o t) : a \in AuthorArticles \cup DateArticles,
                          t \in {<<>>, <<SampleArticles[2]>>} }
      \cup {Chunk(<<>>), Malformed}

\* The bodies an EFetch response may have: up to MaxRecs articles, taken in
\* turn from the three above starting at any of them
ResponseChunks ==
    { Chunk([i \in 1..n |-> SampleArticles[((first + i - 2) % Len(SampleArticles)) + 1]])
        : first \in 1..Len(SampleArticles), n \in 0..MaxRecs } \cup {Malformed}

\* The lengths of the identifier list an ESearch response may have
IdCounts ==
    {0} \cup { k * BATCH_SIZE + d : k \in 0..(MaxBatches - 1), d \in {1, BATCH_SIZE - 1, BATCH_SIZE} }

\* RECURSIVE helper: c repeated n times
RECURSIVE Rep(_, _)
Rep(c, n) ==
    IF n = 0 THEN ""
    ELSE IF n % 2 = 0 THEN LET h == Rep(c, n \div 2) IN h \o h
    ELSE c \o Rep(c, n - 1)

\* Pieces titles are put together from
TitleParts ==
    { "a", Rep("b", 99), Rep("c", 100), Rep("d", 194), Rep("e", 201), " ", "\t" }

Titles == Concats(TitleParts, MaxTitleParts)

TitleChunks ==
    { Chunk(<<Article(Some("123"), Some(t), None, None, <<CompanyAuthor>>)>>) : t \in Titles }
      \cup { Chunk(<<Article(Some("123"), None, None, None, <<CompanyAuthor>>)>>), Malformed }

-----------------------------------------------------------------------------
(* Helpers applied on their own *)

\* Values the variables of fetch_papers and main hold meanwhile
Idle ==
    /\ pmids = <<>>
    /\ start = 0
    /\ requests = <<>>
    /\ responses = <<>>
    /\ searches = 0
    /\ df = None
    /\ exit_code = None
    /\ output = None

IdleUnchanged ==
    UNCHANGED <<pmids, start, requests, responses, searches, df, exit_code, output>>

\* is_company_affil applied to one affiliation string
InitClassify ==
    /\ pc = "classify"
    /\ text \in AffilStrings
    /\ result = None
    /\ xml = None
    /\ rows = <<>>
    /\ Idle

Classify ==
    /\ pc = "classify"
    /\ result' = Some(is_company_affil(text))
    /\ pc' = "classified"
    /\ UNCHANGED <<text, xml, rows>>
    /\ IdleUnchanged

NextClassify == Classify

SpecClassify == InitClassify /\ [][NextClassify]_vars

\* parse_articles applied to one chunk, as tests/test_parser.py applies it
ParseAlone ==
    /\ pc = "parse"
    /\ IF xml[1].ok
       THEN rows' = parse_articles(xml[1]) /\ pc' = "parsed"
       ELSE rows' = rows /\ pc' = "raised"    \* etree.fromstring raises
    /\ UNCHANGED <<text, result, xml>>
    /\ IdleUnchanged

InitParse ==
    /\ pc = "parse"
    /\ xml \in { Some(c) : c \in ParseChunks }
    /\ rows = <<>>
    /\ text = ""
    /\ result = None
    /\ Idle

NextParse == ParseAlone

SpecParse == InitParse /\ [][NextParse]_vars

\* parse_articles applied to one article whose title varies
InitTitle ==
    /\ pc = "parse"
    /\ xml \in { Some(c) : c \in TitleChunks }
    /\ rows = <<>>
    /\ text = ""
    /\ result = None
    /\ Idle

SpecTitle == InitTitle /\ [][NextParse]_vars

-----------------------------------------------------------------------------
(* fetch_papers under cli.main *)

Init ==
    /\ pc = "esearch"
    /\ pmids = <<>>
    /\ start = 0
    /\ requests = <<>>
    /\ responses = <<>>
    /\ searches = 0
    /\ xml = None
    /\ rows = <<>>
    /\ df = None
    /\ exit_code = None
    /\ output = None
    /\ text = ""
    /\ result = None

\* A slice that is one identifier short.
BatchSlice_short(ids, s) == SubSeq(ids, s + 1, Min(s + BATCH_SIZE - 1, Len(ids)))

\* pmids[start : start + BATCH_SIZE] (line 79)
BatchSlice(ids, s) == SubSeq(ids, s + 1, Min(s + BATCH_SIZE, Len(ids)))

\* New rows put in front of the accumulated ones.
Extend_front(acc, new) == new \o acc

\* New rows put in place of the accumulated ones.
Extend_replace(acc, new) == new

\* rows.extend(new) (line 178)
Extend(acc, new) == acc \o new

\* esearch (line 175): one request; the response carries the identifier list,
\* or the exchange fails (raise_for_status, resp.json(), the keys looked up)
Esearch ==
    /\ pc = "esearch"
    /\ searches' = searches + 1
    /\ \/ \E n \in IdCounts :
            /\ pmids' = [i \in 1..n |-> i]
            /\ pc' = "efetch"
       \/ /\ pmids' = pmids
          /\ pc' = "raised"
    /\ UNCHANGED <<start, requests, responses, xml, rows, df, exit_code, output, text, result>>

\* efetch resumed by the for loop of fetch_papers (lines 78-88): the next
\* value of range(0, len(pmids), BATCH_SIZE), one request for its slice, and
\* the response body yielded, or raise_for_status raising
EfetchNext ==
    /\ pc = "efetch"
    /\ start < Len(pmids)
    /\ LET batch == BatchSlice(pmids, start)
       IN requests' = Append(requests, batch)
    /\ start' = start + BATCH_SIZE
    /\ \/ \E body \in ResponseChunks :
            /\ xml' = Some(body)
            /\ pc' = "parse"
       \/ /\ xml' = xml
          /\ pc' = "raised"
    /\ UNCHANGED <<pmids, responses, searches, rows, df, exit_code, output, text, result>>

\* rows.extend(parse_articles(xml)) (line 178)
ParseBatch ==
    /\ pc = "parse"
    /\ IF xml[1].ok
       THEN /\ rows' = Extend(rows, parse_articles(xml[1]))
            /\ responses' = Append(responses, xml[1])
            /\ pc' = "efetch"
       ELSE /\ rows' = rows
            /\ responses' = responses
            /\ pc' = "raised"               \* etree.fromstring raises
    /\ UNCHANGED <<pmids, start, requests, searches, xml, df, exit_code, output, text, result>>

\* The range is exhausted: the DataFrame is built and returned (lines 180-192)
FetchPapersReturn ==
    /\ pc = "efetch"
    /\ start >= Len(pmids)
    /\ df' = Some(rows)
    /\ pc' = "returned"
    /\ UNCHANGED <<pmids, start, requests, responses, searches, xml, rows, exit_code, output,
                   text, result>>

\* save_or_print(df, filename) (fetcher.py lines 195-206)
save_or_print(frame, filename) ==
    IF filename # None
    THEN [to |-> "file", kind |-> "csv", rows |-> frame]
    ELSE IF frame = <<>>
         THEN [to |-> "stdout", kind |-> "notice", rows |-> <<>>]
         ELSE [to |-> "stdout", kind |-> "csv", rows |-> frame]

\* main, after fetch_papers returned (cli.py line 67)
MainSave ==
    /\ pc = "returned"
    /\ \E file \in {None, Some("results.csv")} :
           output' = Some(save_or_print(df[1], file))
    /\ exit_code' = Some(0)
    /\ pc' = "exited"
    /\ UNCHANGED <<pmids, start, requests, responses, searches, xml, rows, df, text, result>>

\* An except clause that still writes what was collected and exits with 0.
MainExcept_swallow ==
    /\ pc = "raised"
    /\ output' = Some(save_or_print(rows, None))
    /\ exit_code' = Some(0)
    /\ pc' = "exited"
    /\ UNCHANGED <<pmids, start, requests, responses, searches, xml, rows, df, text, result>>

\* main, the except clause (cli.py lines 63-65): the error is printed and
\* sys.exit(1) ends the process
MainExcept ==
    /\ pc = "raised"
    /\ exit_code' = Some(1)
    /\ pc' = "exited"
    /\ UNCHANGED <<pmids, start, requests, responses, searches, xml, rows, df, output, text,
                   result>>

Next ==
    \/ Esearch
    \/ EfetchNext
    \/ ParseBatch
    \/ FetchPapersReturn
    \/ MainSave
    \/ MainExcept

Spec == Init /\ [][Next]_vars

-----------------------------------------------------------------------------
(* Properties *)

\* Case-insensitive substring test
Contains(s, kw) ==
    \E i \in 1..Len(s) :
        i + Len(kw) - 1 <= Len(s) /\ lower(SubSeq(s, i, i + Len(kw) - 1)) = kw

\* The company indicators as plain keywords
CompanyIndicators ==
    {"pharm", "biotech", "inc", "ltd", "llc", "gmbh", "corp", "plc",
     "sa", "s.a", "kk", "k.k"}

\* The academic indicators as plain keywords
AcademicIndicators ==
    {"univ", "college", "academy", "school", "hospital", "centre", "center",
     "institut", "facult", "dept", "department"}

HasCompanyIndicator(s) == \E kw \in CompanyIndicators : Contains(s, kw)
HasAcademicIndicator(s) == \E kw \in AcademicIndicators : Contains(s, kw)

\* C2: is_company_affil returns company exactly when the string holds a
\* company indicator and no academic indicator: with both it returns other,
\* with a company indicator alone it returns company, and it returns a
\* Boolean for every string.
C2_Classify ==
    pc = "classified" =>
        /\ result \in {Some(TRUE), Some(FALSE)}
        /\ result[1] = (HasCompanyIndicator(text) /\ ~HasAcademicIndicator(text))
        /\ (HasCompanyIndicator(text) /\ HasAcademicIndicator(text) => result[1] = FALSE)
        /\ (HasCompanyIndicator(text) /\ ~HasAcademicIndicator(text) => result[1] = TRUE)

\* A string with both kinds of indicator has been classified.
C2_Witness ==
    /\ pc = "classified"
    /\ HasCompanyIndicator(text)
    /\ HasAcademicIndicator(text)
    /\ result = Some(FALSE)


\* The text of an AffiliationInfo element as the document holds it
AffilText(info) == Or(info, "")

\* The article has an author with an affiliation classified as company
HasCompanyAuthor(art) ==
    \E i \in 1..Len(art.Authors) :
        \E j \in 1..Len(art.Authors[i].Affiliations) :
            is_company_affil(AffilText(art.Authors[i].Affiliations[j]))

\* The articles of a chunk that have a company author, in document order
Qualifying(arts) == SelectSeq(arts, HasCompanyAuthor)

\* C1: parse_articles emits exactly one row for each article with a
\* company-classified author, none for any other article, and no row has an
\* empty author or affiliation field.
C1_RowIffCompanyAuthor ==
    pc = "parsed" =>
        LET q == Qualifying(xml[1].articles)
        IN /\ Len(rows) = Len(q)
           /\ \A k \in 1..Len(rows) :
                /\ rows[k].PubmedID = q[k].PMID
                /\ rows[k].NonAcademicAuthors # ""
                /\ rows[k].CompanyAffiliations # ""

\* A chunk of an academic article and a company one gave one row.
C1_Witness ==
    /\ pc = "parsed"
    /\ Len(xml[1].articles) = 2
    /\ xml[1].articles[1].Authors # <<>>
    /\ ~HasCompanyAuthor(xml[1].articles[1])
    /\ HasCompanyAuthor(xml[1].articles[2])
    /\ Len(rows) = 1
    /\ rows[1].PubmedID = xml[1].articles[2].PMID

\* ceil(n / c)
CeilDiv(n, c) == (n + c - 1) \div c

\* efetch was consumed to its end
EfetchConsumed == df # None

\* The lists of a list of lists, one after the other
RECURSIVE Flatten(_)
Flatten(lists) == IF lists = <<>> THEN <<>> ELSE lists[1] \o Flatten(Tail(lists))

\* C3: consumed to its end, efetch has issued ceil(n / BATCH_SIZE) requests;
\* the k-th carries the k-th run of at most BATCH_SIZE consecutive
\* identifiers, the requests together carry every identifier once and in the
\* original order, and no identifier means no request.
C3_Batches ==
    LET n == Len(pmids)
        q == CeilDiv(n, BATCH_SIZE)
    IN /\ Len(requests) <= q
       /\ EfetchConsumed =>
            /\ Len(requests) = q
            /\ (n = 0 => requests = <<>>)
            /\ \A k \in 1..q :
                 /\ Len(requests[k]) = (IF k < q THEN BATCH_SIZE ELSE n - (q - 1) * BATCH_SIZE)
                 /\ Len(requests[k]) <= BATCH_SIZE
                 /\ \A i \in 1..Len(requests[k]) :
                        requests[k][i] = pmids[(k - 1) * BATCH_SIZE + i]
            /\ Flatten(requests) = pmids

\* 201 identifiers were fetched in two requests.
C3_Witness ==
    /\ EfetchConsumed
    /\ Len(pmids) = BATCH_SIZE + 1
    /\ Len(requests) = 2
    /\ Len(requests[2]) = 1

\* The articles of the responses parsed so far, in the order received
RECURSIVE ArticlesOf(_)
ArticlesOf(bodies) ==
    IF bodies = <<>> THEN <<>>
    ELSE bodies[1].articles \o ArticlesOf(Tail(bodies))

\* C4: the report holds the rows of the qualifying articles in the order the
\* fetch step returned the articles: batch by batch, and in document order
\* within a batch.
C4_ReportOrder ==
    df # None =>
        LET q == Qualifying(ArticlesOf(responses))
        IN /\ Len(df[1]) = Len(q)
           /\ \A k \in 1..Len(q) : Some(df[1][k]) = ArticleRow(q[k])

\* Two batches gave rows 3, 1, 1: neither sorted nor reordered.
C4_Witness ==
    /\ df # None
    /\ Len(responses) = 2
    /\ Len(responses[1].articles) = 2
    /\ Len(df[1]) = 3
    /\ df[1][1].PubmedID = Some("3")
    /\ df[1][2].PubmedID = Some("1")
    /\ df[1][3].PubmedID = Some("1")

\* An exception left esearch, efetch or parse_articles
Failed == pc = "raised" \/ exit_code = Some(1)

IsPrefix(a, b) == Len(a) <= Len(b) /\ SubSeq(b, 1, Len(a)) = a

\* C5: a failed search, fetch or parse fails the run: no report is returned
\* (the rows collected so far are not), nothing is requested again or
\* further, and main exits with a non-zero status having emitted nothing.
C5_FailureIsFatal ==
    /\ [](/\ (Failed => df = None /\ output = None)
          /\ (xml # None /\ ~xml[1].ok /\ pc # "parse" => Failed)
          /\ (searches = 1 /\ pc # "esearch" /\ pmids = <<>> /\ df = None /\ pc # "efetch"
                => Failed)
          /\ (pc = "exited" /\ Failed => exit_code # Some(0)))
    /\ [][Failed => /\ Failed'
                    /\ requests' = requests
                    /\ searches' = searches
                    /\ df' = None
                    /\ output' = None]_vars

\* The second parse failed after the first gave rows: main exited with 1.
C5_Witness ==
    /\ pc = "exited"
    /\ exit_code = Some(1)
    /\ rows # <<>>
    /\ Len(requests) = 2
    /\ df = None
    /\ output = None

\* The date element holds a non-empty text for the field
HasText(node, field) == node # None /\ node[1][field] # None /\ node[1][field][1] # ""

\* C6 as stated: ... and a record without date sub-fields gets "unknown".
C6_Original ==
    pc = "parsed" /\ Len(xml[1].articles) > 0 /\ HasCompanyAuthor(xml[1].articles[1]) =>
        LET art == xml[1].articles[1]
            node == IF art.ArticleDate # None THEN art.ArticleDate ELSE art.PubDate
            y == HasText(node, "Year")
            m == HasText(node, "Month")
            d == HasText(node, "Day")
            date == rows[1].PublicationDate
        IN /\ (y /\ m /\ d => date = node[1].Year[1] \o "-" \o node[1].Month[1] \o "-" \o node[1].Day[1])
           /\ (y /\ m /\ ~d => date = node[1].Year[1] \o "-" \o node[1].Month[1])
           /\ (y /\ ~m /\ ~d => date = node[1].Year[1])
           /\ (~y /\ ~m /\ ~d => date = "unknown")

\* C6: the date comes from the ArticleDate element when the article has one
\* and from the PubDate element otherwise; it is the non-empty ones of Year,
\* Month and Day, in this order, joined by "-", and "N/A" when the element
\* has none of them or the article has neither element.
C6_Date ==
    pc = "parsed" /\ Len(xml[1].articles) > 0 /\ HasCompanyAuthor(xml[1].articles[1]) =>
        LET art == xml[1].articles[1]
            node == IF art.ArticleDate # None THEN art.ArticleDate ELSE art.PubDate
            y == HasText(node, "Year")
            m == HasText(node, "Month")
            d == HasText(node, "Day")
            date == rows[1].PublicationDate
        IN /\ (y /\ m /\ d => date = node[1].Year[1] \o "-" \o node[1].Month[1] \o "-" \o node[1].Day[1])
           /\ (y /\ m /\ ~d => date = node[1].Year[1] \o "-" \o node[1].Month[1])
           /\ (y /\ ~m /\ d => date = node[1].Year[1] \o "-" \o node[1].Day[1])
           /\ (y /\ ~m /\ ~d => date = node[1].Year[1])
           /\ (~y /\ m /\ d => date = node[1].Month[1] \o "-" \o node[1].Day[1])
           /\ (~y /\ m /\ ~d => date = node[1].Month[1])
           /\ (~y /\ ~m /\ d => date = node[1].Day[1])
           /\ (~y /\ ~m /\ ~d => date = "N/A")

\* An empty ArticleDate element hid a PubDate with a year: the date is "N/A".
C6_Witness ==
    /\ pc = "parsed"
    /\ Len(rows) > 0
    /\ xml[1].articles[1].ArticleDate = DateOf(None, None, None)
    /\ xml[1].articles[1].PubDate = DateOf(Some("2023"), Some("Dec"), Some("15"))
    /\ rows[1].PublicationDate = "N/A"

\* The permutations of a sequence
Perms(xs) ==
    { [i \in 1..Len(xs) |-> xs[p[i]]] :
        p \in { f \in [1..Len(xs) -> 1..Len(xs)] : \A i, j \in 1..Len(xs) : f[i] = f[j] => i = j } }

\* The article with its authors reordered, or with the affiliations of one
\* author reordered
Reorderings(art) ==
    { [art EXCEPT !.Authors = al] : al \in Perms(art.Authors) }
      \cup UNION { { [art EXCEPT !.Authors[i].Affiliations = af] :
                       af \in Perms(art.Authors[i].Affiliations) } : i \in 1..Len(art.Authors) }

\* The trimmed names of the authors with a company affiliation
CompanyAuthorNames(art) ==
    { strip(AuthorName(art.Authors[i])) :
        i \in { i \in 1..Len(art.Authors) :
                  \E j \in 1..Len(art.Authors[i].Affiliations) :
                      is_company_affil(AffilText(art.Authors[i].Affiliations[j])) } }

\* The trimmed company affiliations of the article
CompanyAffilTexts(art) ==
    { strip(AffilText(art.Authors[i].Affiliations[j])) :
        <<i, j>> \in { <<i, j>> \in (1..Len(art.Authors)) \X (1..MaxAffils + MaxScan) :
                         /\ j <= Len(art.Authors[i].Affiliations)
                         /\ is_company_affil(AffilText(art.Authors[i].Affiliations[j])) } }

\* field lists every entry of E once, in ascending order, joined by "; "
ListsSorted(field, E) ==
    \E q \in SeqsOfLen(E, Cardinality(E)) :
        /\ \A i \in 1..(Len(q) - 1) : StrLess(q[i], q[i + 1])
        /\ field = join("; ", q)

\* C7: in every row the author field and the affiliation field list their
\* entries (trimmed strings) once each and in ascending order, and both are
\* the same for every reordering of the authors or of the affiliations of an
\* author.
C7_SortedDistinct ==
    pc = "parsed" =>
        LET q == Qualifying(xml[1].articles)
        IN \A k \in 1..Len(rows) :
             /\ k <= Len(q)
             /\ ListsSorted(rows[k].NonAcademicAuthors, CompanyAuthorNames(q[k]))
             /\ ListsSorted(rows[k].CompanyAffiliations, CompanyAffilTexts(q[k]))
             /\ \A other \in Reorderings(q[k]) :
                  LET row == ArticleRow(other)
                  IN /\ row # None
                     /\ row[1].NonAcademicAuthors = rows[k].NonAcademicAuthors
                     /\ row[1].CompanyAffiliations = rows[k].CompanyAffiliations

\* Jane Doe with the same company twice, listed before A with another one.
C7_Witness ==
    /\ pc = "parsed"
    /\ Len(rows) > 0
    /\ Len(xml[1].articles[1].Authors) = 2
    /\ xml[1].articles[1].Authors[1].Affiliations = <<Some(" Acme Inc.\n"), Some("Acme Inc.")>>
    /\ rows[1].NonAcademicAuthors = "A; Jane Doe"
    /\ rows[1].CompanyAffiliations = "Acme Inc.; Zed GmbH, zed@zp.com"

\* The title parse_articles works on: "N/A" for a missing or empty one
TitleOf(art) == Or(art.ArticleTitle, "N/A")

EndsWith(s, suffix) ==
    Len(suffix) <= Len(s) /\ SubSeq(s, Len(s) - Len(suffix) + 1, Len(s)) = suffix

\* The truncation marker
Marker == "[...]"

RECURSIVE ScanOrder(_)
ScanOrder(authors) ==
    IF authors = <<>> THEN <<>>
    ELSE [j \in 1..Len(authors[1].Affiliations) |-> AffilText(authors[1].Affiliations[j])]
            \o ScanOrder(Tail(authors))

\* The first address in scan order, or the sentinel
FirstAddress(art, sentinel) ==
    LET texts == ScanOrder(art.Authors)
        hits == { k \in 1..Len(texts) : first_email(texts[k]) # None }
    IN IF hits = {} THEN sentinel
       ELSE first_email(texts[CHOOSE k \in hits : \A h \in hits : k <= h])[1]

\* C10 as stated: ... and without a match the email is "unknown".
C10_Original ==
    pc = "parsed" =>
        LET q == Qualifying(xml[1].articles)
        IN \A k \in 1..Len(rows) :
             k <= Len(q) /\ rows[k].CorrespondingAuthorEmail = FirstAddress(q[k], "unknown")

\* C10: the email of a row is the first match of the email pattern in the
\* affiliations of its own article, scanned author by author and affiliation
\* by affiliation whatever their classification; a later match does not
\* replace it, nothing is taken from another article, and without a match it
\* is "N/A".
C10_FirstEmail ==
    pc = "parsed" =>
        LET q == Qualifying(xml[1].articles)
        IN \A k \in 1..Len(rows) :
             k <= Len(q) /\ rows[k].CorrespondingAuthorEmail = FirstAddress(q[k], "N/A")

\* An academic address came before a company one, and the next article,
\* which has none, got "N/A".
C10_Witness ==
    /\ pc = "parsed"
    /\ Len(rows) = 2
    /\ Len(xml[1].articles[1].Authors) = 2
    /\ xml[1].articles[1].Authors[1].Affiliations = <<Some(" Dept. Biology, jane@uni.edu ")>>
    /\ xml[1].articles[1].Authors[2].Affiliations = <<Some("Zed GmbH, zed@zp.com")>>
    /\ rows[1].CorrespondingAuthorEmail = "jane@uni.edu"
    /\ rows[2].CorrespondingAuthorEmail = "N/A"

\* The rows of the responses parsed so far
RowsOf(bodies) ==
    LET q == Qualifying(ArticlesOf(bodies))
    IN [k \in 1..Len(q) |-> ArticleRow(q[k])[1]]

\* C9: one search is issued and has answered before any fetch; a fetch is
\* issued only when every earlier response has been parsed and its rows
\* appended; rows are only ever appended, and only by the parse step of
\* fetch_papers.
C9_Sequential ==
    /\ [](/\ searches <= 1
          /\ (requests # <<>> => searches = 1 /\ pc # "esearch")
          /\ Len(requests) - Len(responses) \in {0, 1}
          /\ (pc = "efetch" => Len(requests) = Len(responses) /\ Len(rows) = Len(RowsOf(responses))))
    /\ [][/\ (requests' # requests =>
                /\ pc = "efetch"
                /\ Len(responses) = Len(requests)
                /\ rows = RowsOf(responses)
                /\ Len(requests') = Len(requests) + 1)
          /\ IsPrefix(rows, rows')
          /\ (rows' # rows => pc = "parse")]_vars

\* The second response is held while the rows of the first are in place.
C9_Witness ==
    /\ pc = "parse"
    /\ Len(requests) = 2
    /\ Len(responses) = 1
    /\ rows # <<>>

=============================================================================
